---- MODULE Spec2Model ----
(***************************************************************************)
(* A model of chatutils/image_engines.py: the two image engines            *)
(* (DalleEngine, StabilityEngine), their sliding-window rate limiter       *)
(* image_rate_limit_check, the prompt directives parsed by imagine, and    *)
(* the mapping of provider outcomes to (artifact, message) results.        *)
(*                                                                         *)
(* Python strings are sequences of one-character strings, so that          *)
(* str.replace, str.split, str.strip and the "in" test are computed        *)
(* character by character as Python computes them.  Python's None is the   *)
(* one-element sequence <<"None">>, which no character sequence equals.    *)
(***************************************************************************)
EXTENDS Integers, Sequences, FiniteSets, TLC

\* engine: which engine this instance is; settings: self.settings (with
\* self.end_user_id), loaded once; now: time.time(); image_rate_limit:
\* self.image_rate_limit; pending: the imagine calls suspended at the provider
\* request; done: the last call of a public entry point that returned; checked:
\* the last image_rate_limit_check that ran; recent: per identity, the calls
\* of image_rate_limit_check and of imagine made in the last ImageRateLimitTime
\* seconds while the limiter is enabled, each with the value the check returned
\* and whether it was an imagine call without a prompt (a history of the calls,
\* kept whatever the table keeps); input: the call a parsing run is about to
\* make.
VARIABLES engine, settings, now, image_rate_limit, pending, done, checked, recent, input

vars == <<engine, settings, now, image_rate_limit, pending, done, checked, recent, input>>

(***************************************************************************)
(* Bounds of the model.                                                    *)
(***************************************************************************)
\* the clock runs from 0 to MaxTime seconds
MaxTime == 3
\* at most MaxChecks calls that the enabled limiter counts fall within one window
MaxChecks == 3
\* at most MaxInflight DALL-E requests await the provider at once
MaxInflight == 2
\* a prompt of the parsing specification is made of at most MaxPieces pieces
MaxPieces == 3

None == <<"None">>

(***************************************************************************)
(* Python's str operations, on sequences of characters.                    *)
(***************************************************************************)
\* s.find(sub) + 1: the first position where sub occurs in s, 0 if nowhere
find(s, sub) ==
    LET hits == {i \in 1..(Len(s) - Len(sub) + 1) : SubSeq(s, i, i + Len(sub) - 1) = sub}
    IN  IF hits = {} THEN 0 ELSE CHOOSE i \in hits : \A j \in hits : i <= j

\* sub in s
contains(s, sub) == find(s, sub) # 0

\* s.replace(old, new): every non-overlapping occurrence, left to right
RECURSIVE replace(_, _, _)
replace(s, old, new) ==
    LET i == find(s, old)
    IN  IF i = 0 THEN s
        ELSE SubSeq(s, 1, i - 1) \o new \o replace(SubSeq(s, i + Len(old), Len(s)), old, new)

\* s.strip(): leading and trailing whitespace removed
RECURSIVE lstrip(_)
lstrip(s) == IF s # <<>> /\ Head(s) = " " THEN lstrip(Tail(s)) ELSE s

RECURSIVE rstrip(_)
rstrip(s) == IF s # <<>> /\ s[Len(s)] = " " THEN rstrip(SubSeq(s, 1, Len(s) - 1)) ELSE s

strip(s) == lstrip(rstrip(s))

\* s.split(sep)[1]: the text between the first and the second occurrence of sep.
\* Only evaluated when sep occurs in s.
split_1(s, sep) ==
    LET i    == find(s, sep)
        rest == SubSeq(s, i + Len(sep), Len(s))
        j    == find(rest, sep)
    IN  IF j = 0 THEN rest ELSE SubSeq(rest, 1, j - 1)

\* s.split(): the whitespace-separated words of s; first_word is s.split()[0]
has_word(s) == lstrip(s) # <<>>

first_word(s) ==
    LET t == lstrip(s)
        k == find(t, <<" ">>)
    IN  IF k = 0 THEN t ELSE SubSeq(t, 1, k - 1)

\* int(s) for a word s: an optional sign and decimal digits
Digits == <<"0", "1", "2", "3", "4", "5", "6", "7", "8", "9">>

DigitValue(c) == (CHOOSE k \in 1..10 : Digits[k] = c) - 1

IsDigit(c) == \E k \in 1..10 : Digits[k] = c

Unsigned(s) == IF s # <<>> /\ Head(s) \in {"-", "+"} THEN Tail(s) ELSE s

int_ok(s) == Unsigned(s) # <<>> /\ \A k \in 1..Len(Unsigned(s)) : IsDigit(Unsigned(s)[k])

RECURSIVE DecimalValue(_)
DecimalValue(s) ==
    IF s = <<>> THEN 0 ELSE 10 * DecimalValue(SubSeq(s, 1, Len(s) - 1)) + DigitValue(s[Len(s)])

int(s) == IF Head(s) = "-" THEN 0 - DecimalValue(Unsigned(s)) ELSE DecimalValue(Unsigned(s))

\* round(n / 60), Python 3 rounding half to even
round_div_60(n) ==
    LET q == n \div 60
        r == n % 60
    IN  IF r < 30 THEN q
        ELSE IF r > 30 THEN q + 1
        ELSE IF q % 2 = 0 THEN q ELSE q + 1

(***************************************************************************)
(* The string literals of the source.                                      *)
(***************************************************************************)
\* the em dash U+2014 of line 122, written "~" (the module is ASCII)
EMDASH == <<"~">>
DASHES == <<"-", "-">>
SPACE == <<" ">>
TWO_SPACES == <<" ", " ">>
SEP == <<";", " ">>
NATURAL == <<"-", "-", "n", "a", "t", "u", "r", "a", "l">>
VIVID == <<"-", "-", "v", "i", "v", "i", "d">>
SD == <<"-", "-", "s", "d">>
HD == <<"-", "-", "h", "d">>
HORIZONTAL == <<"-", "-", "h", "o", "r", "i", "z", "o", "n", "t", "a", "l">>
VERTICAL == <<"-", "-", "v", "e", "r", "t", "i", "c", "a", "l">>
RATIO == <<"-", "-", "r", "a", "t", "i", "o">>
NEGATIVE == <<"-", "-", "n", "e", "g", "a", "t", "i", "v", "e">>
SEED == <<"-", "-", "s", "e", "e", "d">>

(***************************************************************************)
(* Caller identities.  An identity is <<type, text>>: the int 0 (the       *)
(* default of imagine), the str "function" (fixed by generate_image), and  *)
(* a list, which is unhashable and cannot be a dict key.                   *)
(***************************************************************************)
DefaultId == <<"int", "0">>
FunctionId == <<"str", "function">>
ListId == <<"list", "[0]">>

Ids == {DefaultId, FunctionId, ListId}

\* hash(id) succeeds: "id not in self.image_rate_limit" raises TypeError otherwise
Hashable(id) == id[1] \in {"int", "str"}

HashableIds == {id \in Ids : Hashable(id)}

(***************************************************************************)
(* Python default arguments: an argument is <<>> (not passed) or <<v>>.    *)
(***************************************************************************)
arg(given, default) == IF given = <<>> THEN default ELSE given[1]

(***************************************************************************)
(* image_rate_limit_check (lines 208-229; lines 427-448 are the same text) *)
(***************************************************************************)
\* line 214: the limiter is disabled
RateLimitDisabled(st) == st.ImageRateLimitCount <= 0 \/ st.ImageRateLimitTime <= 0

\* a limiter that keeps the timestamps exactly ImageRateLimitTime old
RemoveOldTimes_inclusive(list, current_time, window) ==
    SelectSeq(list, LAMBDA t : current_time - t <= window)

\* line 222: [t for t in list if current_time - t < ImageRateLimitTime]
RemoveOldTimes(list, current_time, window) ==
    SelectSeq(list, LAMBDA t : current_time - t < window)

\* a limiter that denies the ImageRateLimitCount-th call already
CountExceeded_early(list, count) == Len(list) >= count

\* line 224: len(list) > ImageRateLimitCount
CountExceeded(list, count) == Len(list) > count

\* a limiter that fails closed
CheckErrorResult_closed == FALSE

\* line 229: the value returned when the check itself fails
CheckErrorResult == TRUE

\* a check that starts the list of its identity anew every time, losing the
\* timestamps recorded before
image_rate_limit_check_losing(st, tbl, id, current_time) ==
    IF RateLimitDisabled(st)
    THEN [ret |-> TRUE, table |-> tbl, appended |-> FALSE, pruned |-> 0, logged |-> FALSE,
          raised |-> FALSE]
    ELSE IF ~Hashable(id)
    THEN [ret |-> TRUE, table |-> tbl, appended |-> FALSE, pruned |-> 0,
          logged |-> TRUE, raised |-> FALSE]
    ELSE [ret |-> TRUE,
          table |-> [i \in DOMAIN tbl \cup {id} |->
                        IF i = id THEN <<current_time>> ELSE tbl[i]],
          appended |-> TRUE, pruned |-> 0, logged |-> FALSE, raised |-> FALSE]

\* The check of identity id at time current_time on table tbl: the value returned,
\* the table afterwards, whether a timestamp was appended (line 220), how many
\* timestamps line 222 removed, and whether an exception was caught and logged (lines 227-228).  Nothing is raised to the caller.
image_rate_limit_check(st, tbl, id, current_time) ==
    IF RateLimitDisabled(st)
    THEN [ret |-> TRUE, table |-> tbl, appended |-> FALSE, pruned |-> 0, logged |-> FALSE,
          raised |-> FALSE]
    ELSE IF ~Hashable(id)
    THEN [ret |-> CheckErrorResult, table |-> tbl, appended |-> FALSE, pruned |-> 0,
          logged |-> TRUE, raised |-> FALSE]
    ELSE LET t1 == IF id \in DOMAIN tbl THEN tbl ELSE tbl @@ (id :> <<>>)
             t2 == [t1 EXCEPT ![id] = Append(@, current_time)]
             t3 == [t2 EXCEPT ![id] = RemoveOldTimes(@, current_time, st.ImageRateLimitTime)]
         IN  [ret |-> ~CountExceeded(t3[id], st.ImageRateLimitCount), table |-> t3,
              appended |-> TRUE, pruned |-> Len(t2[id]) - Len(t3[id]), logged |-> FALSE,
              raised |-> FALSE]

(***************************************************************************)
(* The messages returned to the caller.                                    *)
(***************************************************************************)
\* lines 120 and 314
RateLimitedMessage(st) ==
    <<"Image generation is rate limited (only ", ToString(st.ImageRateLimitCount),
      " images per ", ToString(round_div_60(st.ImageRateLimitTime)),
      " minutes are allowed). Please try again later.">>
NoPromptMessage == <<"No text prompt was given. Please try again.">>
EmptyPromptMessage == <<"Text prompt is empty. Please try again.">>
DallePolicyMessage ==
    <<"Your request was rejected because it may violate content policy. Please review it and try again.">>
DalleRejectedMessage == <<"Your request was rejected. Please review it and try again.">>
DalleRateLimitMessage == <<"Service is getting rate limited. Please try again later.">>
StabilityFinishReasonMessage(reason) == <<"Could not generate image. Finish Reason: ", reason>>
StabilityGenericMessage == <<"Could not generate image. Please try again.">>
StabilityBadRequestMessage == <<"Your request was rejected (BadRequest).">>
StabilityModerationMessage ==
    <<"Your request was flagged by content moderation. Please review it and try again.">>
StabilityServerErrorMessage == <<"Service is down. Please try again later.">>
StabilityRevisedPrompt(prompt, seed, reason) ==
    <<"Prompt: ">> \o prompt \o <<". Seed: ", seed, ". Finish Reason: ", reason>>

(***************************************************************************)
(* Provider requests and what imagine hands back.                          *)
(***************************************************************************)
NoRequest == [sent |-> FALSE]

\* imagine returned result without suspending
Returned(tbl, chk, result, caught) ==
    [awaiting |-> FALSE, table |-> tbl, chk |-> chk, result |-> result,
     request |-> NoRequest, caught |-> caught]

\* imagine issued request and awaits the provider
Awaiting(tbl, chk, request) ==
    [awaiting |-> TRUE, table |-> tbl, chk |-> chk, result |-> <<None, None>>,
     request |-> request, caught |-> FALSE]

(***************************************************************************)
(* DalleEngine.imagine (lines 96-178)                                      *)
(***************************************************************************)
\* hashlib.sha1(str(id).encode("utf-8")).hexdigest(): a digest of the text of id
sha1_hexdigest(text) == <<"sha1", text>>

\* The directive steps work on r = [prompt, size, style, quality].
\* lines 124-126
DalleNatural(r) ==
    IF contains(r.prompt, NATURAL)
    THEN [r EXCEPT !.style = "natural", !.prompt = replace(r.prompt, NATURAL, <<>>)]
    ELSE r

\* lines 127-129
DalleVivid(r) ==
    IF contains(r.prompt, VIVID)
    THEN [r EXCEPT !.style = "vivid", !.prompt = replace(r.prompt, VIVID, <<>>)]
    ELSE r

\* lines 130-132
DalleSd(r) ==
    IF contains(r.prompt, SD)
    THEN [r EXCEPT !.quality = "standard", !.prompt = replace(r.prompt, SD, <<>>)]
    ELSE r

\* lines 133-135
DalleHd(r) ==
    IF contains(r.prompt, HD)
    THEN [r EXCEPT !.quality = "hd", !.prompt = replace(r.prompt, HD, <<>>)]
    ELSE r

\* lines 136-139
DalleHorizontal(model, r) ==
    IF contains(r.prompt, HORIZONTAL)
    THEN [r EXCEPT !.size = IF model = "dall-e-3" THEN "1792x1024" ELSE @,
                   !.prompt = replace(r.prompt, HORIZONTAL, <<>>)]
    ELSE r

\* lines 140-143
DalleVertical(model, r) ==
    IF contains(r.prompt, VERTICAL)
    THEN [r EXCEPT !.size = IF model = "dall-e-3" THEN "1024x1792" ELSE @,
                   !.prompt = replace(r.prompt, VERTICAL, <<>>)]
    ELSE r

\* line 144
DalleStrip(r) == [r EXCEPT !.prompt = strip(r.prompt)]

\* lines 122-144: the directives of the prompt, in the order of the code
DalleDirectives(model, prompt, size, style, quality) ==
    DalleStrip(DalleVertical(model, DalleHorizontal(model, DalleHd(DalleSd(DalleVivid(
        DalleNatural([prompt |-> replace(prompt, EMDASH, DASHES), size |-> size,
                      style |-> style, quality |-> quality])))))))

\* lines 145-158: from the parsed directives d to the provider request
Dalle_imagine_request(st, a, chk, d) ==
    IF d.prompt = <<>>
    THEN Returned(chk.table, chk, <<None, NoPromptMessage>>, FALSE)
    ELSE Awaiting(chk.table, chk,
                  [sent |-> TRUE, model |-> st.ImageGenModel, prompt |-> d.prompt,
                   size |-> d.size, quality |-> d.quality, n |-> arg(a.n, 1),
                   response_format |-> "b64_json", style |-> d.style,
                   user |-> IF st.EndUserID THEN sha1_hexdigest(a.id[2]) ELSE None])

\* lines 119-144: from the rate-limit check chk to the parsed directives
Dalle_imagine_checked(st, a, chk) ==
    IF chk.ret = FALSE
    THEN Returned(chk.table, chk, <<None, RateLimitedMessage(st)>>, FALSE)
    ELSE IF a.prompt = None   \* None.replace: AttributeError, caught at line 176
    THEN Returned(chk.table, chk, <<None, None>>, TRUE)
    ELSE Dalle_imagine_request(st, a, chk,
             DalleDirectives(st.ImageGenModel, a.prompt, arg(a.size, "1024x1024"),
                             arg(a.style, "vivid"), arg(a.quality, "standard")))

\* an imagine that rejects a call without a prompt before it checks the rate limit
Dalle_imagine_call_validating_first(st, tbl, current_time, a) ==
    IF a.prompt \in {None, <<>>}
    THEN Returned(tbl, [ret |-> TRUE, table |-> tbl, appended |-> FALSE, pruned |-> 0,
                        logged |-> FALSE, raised |-> FALSE],
                  <<None, NoPromptMessage>>, FALSE)
    ELSE Dalle_imagine_checked(st, a, image_rate_limit_check(st, tbl, a.id, current_time))

\* lines 118-158: imagine up to "await self.client.images.generate(...)"
Dalle_imagine_call(st, tbl, current_time, a) ==
    Dalle_imagine_checked(st, a, image_rate_limit_check(st, tbl, a.id, current_time))

\* What the provider answers: the SDK raises exc ("" when it raises nothing; text is
\* str(e)), or returns a response whose data list is empty or holds one image.
DalleOutcome(exc, text, data, b64_json, revised_prompt) ==
    [exc |-> exc, text |-> text, data |-> data, b64_json |-> b64_json,
     revised_prompt |-> revised_prompt]

DalleOutcomes ==
    {DalleOutcome("", "", TRUE, <<"b64">>, <<"revised">>),
     DalleOutcome("", "", TRUE, <<"b64">>, None),
     DalleOutcome("", "", TRUE, None, None),
     DalleOutcome("", "", FALSE, None, None),
     DalleOutcome("BadRequestError", "invalid_request_error", FALSE, None, None),
     DalleOutcome("BadRequestError", "content_policy_violation", FALSE, None, None),
     DalleOutcome("RateLimitError", "rate_limit_exceeded", FALSE, None, None),
     DalleOutcome("PermissionDeniedError", "permission_denied", FALSE, None, None),
     DalleOutcome("InternalServerError", "server_error", FALSE, None, None)}

\* lines 159-178: imagine from the provider's answer o to its return:
\* [result, caught], caught when the "except Exception" of line 176 logged it
Dalle_imagine_resume(revision, o) ==
    IF o.exc = "BadRequestError"
    THEN [result |-> IF o.text = "content_policy_violation"
                     THEN <<None, DallePolicyMessage>>
                     ELSE <<None, DalleRejectedMessage>>,
          caught |-> FALSE]
    ELSE IF o.exc = "RateLimitError"
    THEN [result |-> <<None, DalleRateLimitMessage>>, caught |-> FALSE]
    ELSE IF o.exc # "" \/ ~o.data   \* any other error, or response.data[0]: IndexError
    THEN [result |-> <<None, None>>, caught |-> TRUE]
    ELSE [result |-> <<o.b64_json, IF revision THEN o.revised_prompt ELSE None>>,
          caught |-> FALSE]

(***************************************************************************)
(* StabilityEngine.imagine (lines 293-400)                                 *)
(***************************************************************************)
RATIO_1_1 == <<"1", ":", "1">>
RATIO_16_9 == <<"1", "6", ":", "9">>
RATIO_9_16 == <<"9", ":", "1", "6">>

\* lines 322-338: the request data seeded from the settings, then the arguments
StabilityData(st, ratio, negative_prompt, seed) ==
    LET negative0 == st.NegativePrompt
        negative1 == IF negative_prompt = None THEN negative0
                     ELSE IF negative0 # None THEN negative0 \o SEP \o negative_prompt
                     ELSE negative_prompt
    IN  [negative_prompt |-> negative1,
         aspect_ratio    |-> IF ratio # RATIO_1_1 THEN ratio ELSE st.ImageGenerationSize,
         seed            |-> IF seed > 0 THEN seed ELSE st.Seed]

\* The directive steps work on [exc, prompt, ratio, data]: exc once a step raised,
\* prompt the text so far, ratio the local variable, data the request data.
\* lines 341-343
StabilityHorizontal(r) ==
    IF contains(r.prompt, HORIZONTAL)
    THEN [r EXCEPT !.ratio = RATIO_16_9, !.prompt = replace(r.prompt, HORIZONTAL, <<>>)]
    ELSE r

\* lines 344-346
StabilityVertical(r) ==
    IF contains(r.prompt, VERTICAL)
    THEN [r EXCEPT !.ratio = RATIO_9_16, !.prompt = replace(r.prompt, VERTICAL, <<>>)]
    ELSE r

\* lines 347-351
StabilityRatio(r) ==
    IF r.exc \/ ~contains(r.prompt, RATIO) THEN r
    ELSE LET rest == strip(split_1(r.prompt, RATIO))
             word == strip(first_word(rest))
         IN  IF ~has_word(rest) THEN [r EXCEPT !.exc = TRUE]   \* [][0]: IndexError
             ELSE [r EXCEPT !.ratio = word,
                            !.prompt = replace(r.prompt, RATIO \o SPACE \o word, <<>>),
                            !.data.aspect_ratio = word]

\* lines 352-356
StabilityNegative(r) ==
    IF r.exc \/ ~contains(r.prompt, NEGATIVE) THEN r
    ELSE LET rest == strip(split_1(r.prompt, NEGATIVE))
             word == strip(first_word(rest))
         IN  IF ~has_word(rest) THEN [r EXCEPT !.exc = TRUE]   \* [][0]: IndexError
             ELSE IF r.data.negative_prompt = None
             THEN [r EXCEPT !.exc = TRUE]   \* data["negative_prompt"] += ...: KeyError
             ELSE [r EXCEPT !.prompt = replace(r.prompt, NEGATIVE \o SPACE \o word, <<>>),
                            !.data.negative_prompt = @ \o SEP \o word]

\* lines 357-361
StabilitySeed(r) ==
    IF r.exc \/ ~contains(r.prompt, SEED) THEN r
    ELSE LET rest == strip(split_1(r.prompt, SEED))
             word == strip(first_word(rest))
         IN  IF ~has_word(rest) THEN [r EXCEPT !.exc = TRUE]   \* [][0]: IndexError
             ELSE IF ~int_ok(word) THEN [r EXCEPT !.exc = TRUE]   \* int(seed): ValueError
             ELSE [r EXCEPT !.prompt = replace(r.prompt, SEED \o SPACE \o word, <<>>),
                            !.data.seed = int(word)]

\* lines 320-361
StabilityDirectives(st, prompt, ratio, negative_prompt, seed) ==
    StabilitySeed(StabilityNegative(StabilityRatio(StabilityVertical(StabilityHorizontal(
        [exc |-> FALSE,
         prompt |-> replace(replace(prompt, EMDASH, DASHES), TWO_SPACES, SPACE),
         ratio |-> ratio, data |-> StabilityData(st, ratio, negative_prompt, seed)])))))

\* What the provider answers: requests.post raises (exc), or a response with a
\* status code and a body that is JSON or not, with or without "image", "seed" and
\* "finish_reason".
StabilityOutcome(exc, status_code, json, image, seed, finish_reason) ==
    [exc |-> exc, status_code |-> status_code, json |-> json, image |-> image,
     seed |-> seed, finish_reason |-> finish_reason]

StabilityOutcomes ==
    {StabilityOutcome(FALSE, 200, TRUE, <<"image">>, "7", "SUCCESS"),
     StabilityOutcome(FALSE, 200, TRUE, None, "7", "CONTENT_FILTERED"),
     StabilityOutcome(FALSE, 200, TRUE, None, "", ""),
     StabilityOutcome(FALSE, 200, FALSE, None, "", ""),
     StabilityOutcome(FALSE, 400, TRUE, None, "", ""),
     StabilityOutcome(FALSE, 403, TRUE, None, "", ""),
     StabilityOutcome(FALSE, 429, TRUE, None, "", ""),
     StabilityOutcome(FALSE, 500, TRUE, None, "", ""),
     StabilityOutcome(TRUE, 0, FALSE, None, "", "")}

\* lines 375-400: the result for answer o: [result, caught]
StabilityClassify(prompt, revision, o) ==
    IF o.exc \/ (o.status_code = 200 /\ ~o.json)   \* response.json() raises
    THEN [result |-> <<None, None>>, caught |-> TRUE]
    ELSE IF o.status_code = 200
    THEN IF o.image # None
         THEN IF revision /\ (o.seed = "" \/ o.finish_reason = "")   \* KeyError
              THEN [result |-> <<None, None>>, caught |-> TRUE]
              ELSE [result |-> <<o.image,
                                 IF revision
                                 THEN StabilityRevisedPrompt(prompt, o.seed, o.finish_reason)
                                 ELSE None>>,
                    caught |-> FALSE]
         ELSE IF o.finish_reason # ""
         THEN [result |-> <<None, StabilityFinishReasonMessage(o.finish_reason)>>,
               caught |-> FALSE]
         ELSE [result |-> <<None, StabilityGenericMessage>>, caught |-> FALSE]
    ELSE IF o.status_code = 400
    THEN [result |-> <<None, StabilityBadRequestMessage>>, caught |-> FALSE]
    ELSE IF o.status_code = 403
    THEN [result |-> <<None, StabilityModerationMessage>>, caught |-> FALSE]
    ELSE IF o.status_code = 500
    THEN [result |-> <<None, StabilityServerErrorMessage>>, caught |-> FALSE]
    ELSE [result |-> <<None, StabilityGenericMessage>>, caught |-> FALSE]

\* lines 363-400: the request built from the directives r, and its result
Stability_imagine_request(st, a, o, chk, r) ==
    IF r.exc
    THEN Returned(chk.table, chk, <<None, None>>, TRUE)   \* caught at line 398
    ELSE [awaiting |-> FALSE, table |-> chk.table, chk |-> chk,
          result |-> StabilityClassify(r.prompt, arg(a.revision, FALSE), o).result,
          request |-> [sent |-> TRUE, url |-> st.ImageGenURL,
                       negative_prompt |-> r.data.negative_prompt,
                       aspect_ratio |-> r.data.aspect_ratio, seed |-> r.data.seed,
                       prompt |-> r.prompt, output_format |-> arg(a.output_format, "jpeg")],
          caught |-> StabilityClassify(r.prompt, arg(a.revision, FALSE), o).caught]

\* lines 313-361: from the rate-limit check chk to the parsed directives
Stability_imagine_checked(st, a, o, chk) ==
    IF chk.ret = FALSE
    THEN Returned(chk.table, chk, <<None, RateLimitedMessage(st)>>, FALSE)
    ELSE IF a.prompt = None
    THEN Returned(chk.table, chk, <<None, NoPromptMessage>>, FALSE)
    ELSE IF a.prompt = <<>>
    THEN Returned(chk.table, chk, <<None, EmptyPromptMessage>>, FALSE)
    ELSE Stability_imagine_request(st, a, o, chk,
             StabilityDirectives(st, a.prompt, arg(a.ratio, RATIO_1_1),
                                 arg(a.negative_prompt, None), arg(a.seed, 0)))

\* lines 312-400: the whole of imagine (requests.post blocks: nothing else runs
\* between the request and the response)
Stability_imagine(st, tbl, current_time, a, o) ==
    Stability_imagine_checked(st, a, o, image_rate_limit_check(st, tbl, a.id, current_time))

(***************************************************************************)
(* generate_image (lines 180-206 and 402-425): the arguments it passes to  *)
(* imagine.  image_orientation and image_style are <<>> for None.          *)
(***************************************************************************)
\* a generate_image that passes the default identity of imagine
Dalle_generate_image_args_as_user(g) ==
    [prompt |-> g.prompt, id |-> DefaultId,
     size |-> << IF g.image_orientation = <<"portrait">> THEN "1024x1792"
                 ELSE IF g.image_orientation = <<"landscape">> THEN "1792x1024"
                 ELSE "1024x1024" >>,
     style |-> << IF g.image_style = <<"natural">> THEN "natural" ELSE "vivid" >>,
     n |-> <<1>>, quality |-> <<"standard">>, revision |-> <<TRUE>>]

Dalle_generate_image_args(g) ==
    [prompt |-> g.prompt, id |-> FunctionId,
     size |-> << IF g.image_orientation = <<"portrait">> THEN "1024x1792"
                 ELSE IF g.image_orientation = <<"landscape">> THEN "1792x1024"
                 ELSE "1024x1024" >>,
     style |-> << IF g.image_style = <<"natural">> THEN "natural" ELSE "vivid" >>,
     n |-> <<1>>, quality |-> <<"standard">>, revision |-> <<TRUE>>]

Stability_generate_image_args(g) ==
    [prompt |-> g.prompt, id |-> FunctionId,
     ratio |-> << IF g.image_orientation = <<"portrait">> THEN RATIO_9_16
                  ELSE IF g.image_orientation = <<"landscape">> THEN RATIO_16_9
                  ELSE RATIO_1_1 >>,
     negative_prompt |-> <<None>>, seed |-> <<0>>, output_format |-> <<"jpeg">>,
     revision |-> <<>>]

(***************************************************************************)
(* The state machine.                                                      *)
(***************************************************************************)
Engines == {"dalle", "stability"}

NoCheck == [called |-> FALSE, id |-> DefaultId, time |-> 0, ret |-> TRUE,
            appended |-> FALSE, pruned |-> 0, logged |-> FALSE, raised |-> FALSE]

CheckEvent(chk, id, current_time) ==
    [called |-> TRUE, id |-> id, time |-> current_time, ret |-> chk.ret,
     appended |-> chk.appended, pruned |-> chk.pruned, logged |-> chk.logged,
     raised |-> chk.raised]

NoCall == [op |-> "none"]

\* no request reached the provider
NoAnswer == [answered |-> FALSE]

\* a call that returned: its arguments, when it was made, its rate-limit check,
\* the provider request it sent and the answer it got, and what it returned
Call(op, a, current_time, chk, request, answer, result, caught) ==
    [op |-> op, a |-> a, time |-> current_time, chk |-> chk, request |-> request,
     answer |-> answer, result |-> result, caught |-> caught]

Idle == [busy |-> FALSE]

RecentLen ==
    LET RECURSIVE Sum(_)
        Sum(S) == IF S = {} THEN 0
                  ELSE LET i == CHOOSE i \in S : TRUE IN Len(recent[i]) + Sum(S \ {i})
    IN  Sum(HashableIds)

FreeSlots == {k \in 1..MaxInflight : ~pending[k].busy}

\* prompt is missing or empty
NoPrompt(prompt) == prompt \in {None, <<>>}

\* the limiter is enabled and id is an identity it can count
Limited(id) == ~RateLimitDisabled(settings) /\ Hashable(id)

\* The effect of one image_rate_limit_check on the table, and its record;
\* noprompt when imagine made the check for a call without a prompt.
RecordCheck(chk, id, noprompt) ==
    /\ Limited(id) => RecentLen < MaxChecks
    /\ image_rate_limit' = chk.table
    /\ checked' = CheckEvent(chk, id, now)
    /\ recent' = IF Limited(id)
                 THEN [recent EXCEPT ![id] = Append(@, [t |-> now, ret |-> chk.ret,
                                                        noprompt |-> noprompt])]
                 ELSE recent

\* time passes
Tick ==
    /\ now < MaxTime
    /\ now' = now + 1
    /\ recent' = [id \in HashableIds |->
                     SelectSeq(recent[id],
                               LAMBDA e : now + 1 - e.t < settings.ImageRateLimitTime)]
    /\ UNCHANGED <<engine, settings, image_rate_limit, pending, done, checked, input>>

\* a direct check returned chk
RateLimitChecked(id, chk) ==
    /\ RecordCheck(chk, id, FALSE)
    /\ done' = Call("image_rate_limit_check", [id |-> id], now,
                    CheckEvent(chk, id, now), NoRequest, NoAnswer, <<chk.ret>>, chk.logged)
    /\ UNCHANGED <<engine, settings, now, pending, input>>

\* await engine.image_rate_limit_check(id)
RateLimitCheck(id) ==
    RateLimitChecked(id, image_rate_limit_check(settings, image_rate_limit, id, now))

\* imagine ran to c: it returned, or it is suspended in the lowest free slot
DalleCalled(op, g, a, c) ==
    /\ engine = "dalle"
    /\ RecordCheck(c.chk, a.id, op = "imagine" /\ NoPrompt(a.prompt))
    /\ IF c.awaiting
       THEN /\ FreeSlots # {}
            /\ pending' = [pending EXCEPT
                              ![CHOOSE k \in FreeSlots : \A j \in FreeSlots : k <= j] =
                                  [busy |-> TRUE, op |-> op, a |-> g, time |-> now,
                                   chk |-> CheckEvent(c.chk, a.id, now),
                                   request |-> c.request,
                                   revision |-> arg(a.revision, FALSE)]]
            /\ UNCHANGED done
       ELSE /\ done' = Call(op, g, now, CheckEvent(c.chk, a.id, now), c.request,
                            NoAnswer, c.result, c.caught)
            /\ UNCHANGED pending
    /\ UNCHANGED <<engine, settings, now, input>>

\* DalleEngine.imagine(a) or, for op = "generate_image", the imagine call of
\* generate_image(g), up to its return or its suspension at the provider request
DalleCall(op, g, a) ==
    DalleCalled(op, g, a, Dalle_imagine_call(settings, image_rate_limit, now, a))

DalleImagine(a) == DalleCall("imagine", a, a)

\* the suspended call p of slot k returns r for the provider's answer o
DalleResumed(k, p, o, r) ==
    /\ p.busy
    /\ done' = Call(p.op, p.a, p.time, p.chk, p.request, o, r.result, r.caught)
    /\ pending' = [pending EXCEPT ![k] = Idle]
    /\ UNCHANGED <<engine, settings, now, image_rate_limit, checked, recent, input>>

\* the provider answers the request of slot k
DalleResume(k, o) ==
    /\ pending[k].busy
    /\ DalleResumed(k, pending[k], o, Dalle_imagine_resume(pending[k].revision, o))

\* generate_image(None) returns at line 191 (line 414)
GenerateImageNone(g) ==
    /\ done' = Call("generate_image", g, now, NoCheck, NoRequest, NoAnswer,
                    <<None, None>>, FALSE)
    /\ UNCHANGED <<engine, settings, now, image_rate_limit, pending, checked, recent, input>>

\* DalleEngine.generate_image(g)
DalleGenerateImage(g) ==
    IF g.prompt = None
    THEN engine = "dalle" /\ GenerateImageNone(g)
    ELSE DalleCall("generate_image", g, Dalle_generate_image_args(g))

\* imagine ran to c; the provider answered o if c sent a request
StabilityCalled(op, g, a, o, c) ==
    /\ engine = "stability"
    /\ RecordCheck(c.chk, a.id, op = "imagine" /\ NoPrompt(a.prompt))
    /\ done' = Call(op, g, now, CheckEvent(c.chk, a.id, now), c.request,
                    IF c.request.sent THEN o ELSE NoAnswer, c.result, c.caught)
    /\ UNCHANGED <<engine, settings, now, pending, input>>

\* StabilityEngine.imagine(a), or the imagine call of generate_image(g)
StabilityCall(op, g, a, o) ==
    StabilityCalled(op, g, a, o, Stability_imagine(settings, image_rate_limit, now, a, o))

StabilityImagine(a, o) == StabilityCall("imagine", a, a, o)

\* StabilityEngine.generate_image(g)
StabilityGenerateImage(g, o) ==
    IF g.prompt = None
    THEN engine = "stability" /\ GenerateImageNone(g)
    ELSE StabilityCall("generate_image", g, Stability_generate_image_args(g), o)

(***************************************************************************)
(* The configurations and inputs of the rate-limiting specification.       *)
(***************************************************************************)
\* ImageRateLimitCount and ImageRateLimitTime: disabled (the defaults of lines
\* 49-50), one image per second, two images per 2 seconds
RateLimits == {<<0, 0>>, <<1, 1>>, <<2, 2>>}

\* __init__ and load_image_generation_settings (lines 43-57, 70-94): the settings
\* and self.end_user_id, with the defaults of the config parser
DalleSettings(model, style, end_user_id, limit) ==
    [ImageGenModel |-> model, ImageGenerationSize |-> "1024x1024",
     ImageGenerationStyle |-> style, ImageGenerationQuality |-> "standard",
     ImageRateLimitCount |-> limit[1], ImageRateLimitTime |-> limit[2],
     EndUserID |-> end_user_id]

\* __init__ and load_image_generation_settings (lines 243-253, 271-291)
StabilitySettings(ratio, negative_prompt, seed, limit) ==
    [ImageGenURL |-> "https://api.stability.ai/v2beta/stable-image/generate/core",
     ImageGenerationSize |-> ratio, ImageRateLimitCount |-> limit[1],
     ImageRateLimitTime |-> limit[2], NegativePrompt |-> negative_prompt, Seed |-> seed,
     ImageGenerationStyle |-> "standard", ImageGenerationQuality |-> "standard"]

\* the signature of DalleEngine.imagine (line 96)
DalleArgs(prompt, id, size, style, quality, revision) ==
    [prompt |-> prompt, id |-> id, size |-> size, style |-> style, n |-> <<>>,
     quality |-> quality, revision |-> revision]

\* the signature of StabilityEngine.imagine (line 293)
StabilityArgs(prompt, id, ratio, negative_prompt, seed, revision) ==
    [prompt |-> prompt, id |-> id, ratio |-> ratio, negative_prompt |-> negative_prompt,
     seed |-> seed, output_format |-> <<>>, revision |-> revision]

\* the signature of generate_image (lines 180 and 402)
GenerateArgs(prompt, image_orientation, image_style) ==
    [prompt |-> prompt, image_orientation |-> image_orientation,
     image_style |-> image_style]

A_CAT == <<"a", " ", "c", "a", "t">>

\* prompts: missing, empty, plain text
LimitPrompts == {None, <<>>, A_CAT}

\* the identities end users call imagine with ("function" is generate_image's)
UserIds == {DefaultId, ListId}

LimitDalleArgs ==
    {DalleArgs(p, id, <<>>, <<>>, <<>>, <<>>) : p \in LimitPrompts, id \in UserIds}

LimitStabilityArgs ==
    {StabilityArgs(p, id, <<>>, <<>>, <<>>, <<>>) : p \in LimitPrompts, id \in UserIds}

LimitGenerateArgs == {GenerateArgs(p, <<>>, <<>>) : p \in {None, A_CAT}}

\* the provider answers with an image
LimitDalleOutcomes == {DalleOutcome("", "", TRUE, <<"b64">>, <<"revised">>)}

LimitStabilityOutcomes == {StabilityOutcome(FALSE, 200, TRUE, <<"image">>, "7", "SUCCESS")}

NoInput == [a |-> <<>>]

Init ==
    /\ engine \in Engines
    /\ settings \in IF engine = "dalle"
                    THEN {DalleSettings("dall-e-3", "vivid", FALSE, l) : l \in RateLimits}
                    ELSE {StabilitySettings(RATIO_1_1, None, 0, l) : l \in RateLimits}
    /\ now = 0
    /\ image_rate_limit = <<>>
    /\ pending = [k \in 1..MaxInflight |-> Idle]
    /\ done = NoCall
    /\ checked = NoCheck
    /\ recent = [id \in HashableIds |-> <<>>]
    /\ input = NoInput

\* no call is suspended at the provider
Sequential == \A k \in 1..MaxInflight : ~pending[k].busy

\* One caller, which awaits each call before it makes the next.
Next ==
    \/ Tick
    \/ \E id \in Ids : Sequential /\ RateLimitCheck(id)
    \/ \E a \in LimitDalleArgs : Sequential /\ DalleImagine(a)
    \/ \E k \in 1..MaxInflight, o \in LimitDalleOutcomes : DalleResume(k, o)
    \/ \E g \in LimitGenerateArgs : Sequential /\ DalleGenerateImage(g)
    \/ \E a \in LimitStabilityArgs, o \in LimitStabilityOutcomes : StabilityImagine(a, o)
    \/ \E g \in LimitGenerateArgs, o \in LimitStabilityOutcomes : StabilityGenerateImage(g, o)

Spec == Init /\ [][Next]_vars

(***************************************************************************)
(* The parsing specification: one call of imagine or generate_image, its   *)
(* engine, settings, arguments and prompt drawn by the initial state, with *)
(* the limiter disabled (the defaults of the configuration).  A prompt is  *)
(* the concatenation of at most MaxPieces pieces.                          *)
(***************************************************************************)
RATIO_3_2 == <<"3", ":", "2">>
RATIO_4_5 == <<"4", ":", "5">>
UGLY == <<"u", "g", "l", "y">>
DARK == <<"d", "a", "r", "k">>
A_DOG == <<"a", " ", "d", "o", "g">>
SEED_42 == SEED \o <<" ", "4", "2">>
RATIO_WIDE == RATIO \o SPACE \o RATIO_16_9
NEGATIVE_BLUR == NEGATIVE \o <<" ", "b", "l", "u", "r">>

DallePieces ==
    {A_CAT, SPACE, SPACE \o HORIZONTAL, SPACE \o HD, VIVID, NATURAL, SD, VERTICAL, EMDASH}

StabilityPieces ==
    {A_DOG, SPACE, SPACE \o SEED_42, SPACE \o RATIO_WIDE, SPACE \o NEGATIVE_BLUR,
     HORIZONTAL, VERTICAL, SEED, EMDASH}

RECURSIVE Concatenations(_, _)
Concatenations(pieces, n) ==
    IF n = 0 THEN {<<>>}
    ELSE LET shorter == Concatenations(pieces, n - 1)
         IN  shorter \cup {s \o p : s \in shorter, p \in pieces}

Optional(S) == {<<>>} \cup {<<x>> : x \in S}

ParseGenerateArgs ==
    {GenerateArgs(p, o, y) : p \in {None, A_CAT, HD},
                             o \in Optional({"landscape", "portrait"}),
                             y \in Optional({"natural"})}

ParseDalleInputs ==
    {[op |-> "imagine", a |-> DalleArgs(p, DefaultId, size, style, quality, revision)] :
        p \in Concatenations(DallePieces, MaxPieces) \cup {None},
        size \in Optional({"512x512"}), style \in Optional({"natural"}),
        quality \in Optional({"hd"}), revision \in Optional({TRUE})}
    \cup {[op |-> "generate_image", a |-> g] : g \in ParseGenerateArgs}

ParseStabilityInputs ==
    {[op |-> "imagine", a |-> StabilityArgs(p, DefaultId, ratio, negative, seed, revision)] :
        p \in Concatenations(StabilityPieces, MaxPieces) \cup {None},
        ratio \in Optional({RATIO_3_2}), negative \in Optional({DARK}),
        seed \in Optional({5}), revision \in Optional({TRUE})}
    \cup {[op |-> "generate_image", a |-> g] : g \in ParseGenerateArgs}

InitParse ==
    /\ engine \in Engines
    /\ settings \in IF engine = "dalle"
                    THEN {DalleSettings("dall-e-3", "vivid", FALSE, <<0, 0>>),
                          DalleSettings("dall-e-2", "natural", TRUE, <<0, 0>>)}
                    ELSE {StabilitySettings(RATIO_1_1, None, 0, <<0, 0>>),
                          StabilitySettings(RATIO_4_5, UGLY, 7, <<0, 0>>)}
    /\ now = 0
    /\ image_rate_limit = <<>>
    /\ pending = [k \in 1..MaxInflight |-> Idle]
    /\ done = NoCall
    /\ checked = NoCheck
    /\ recent = [id \in HashableIds |-> <<>>]
    /\ input \in IF engine = "dalle" THEN ParseDalleInputs ELSE ParseStabilityInputs

\* the call of the initial state has not been made
Fresh == Sequential /\ done = NoCall

NextParse ==
    \/ Fresh /\ input.op = "imagine" /\ DalleImagine(input.a)
    \/ Fresh /\ input.op = "generate_image" /\ DalleGenerateImage(input.a)
    \/ \E k \in 1..MaxInflight, o \in DalleOutcomes : DalleResume(k, o)
    \/ \E o \in StabilityOutcomes :
          Fresh /\ input.op = "imagine" /\ StabilityImagine(input.a, o)
    \/ \E o \in StabilityOutcomes :
          Fresh /\ input.op = "generate_image" /\ StabilityGenerateImage(input.a, o)

SpecParse == InitParse /\ [][NextParse]_vars

(***************************************************************************)
(* The claims about the rate limiter, under Spec.                          *)
(***************************************************************************)
Count == settings.ImageRateLimitCount
Window == settings.ImageRateLimitTime

\* the last check counted its identity, and no time has passed since
JustChecked == checked.called /\ Limited(checked.id) /\ checked.time = now

\* C1: with the limiter enabled (count N, window W), a check of an identity that
\* is the k-th call of that identity in the last W seconds (a call exactly W
\* seconds old is not in them) returns true when k <= N and false when k > N.
\* So of N+1 calls within W seconds the first N return true and the (N+1)-th
\* false, and a call with no other call of its identity in the W seconds before
\* it (the previous one is W seconds old or older) returns true again.
C1_Theorem ==
    JustChecked =>
        /\ Len(recent[checked.id]) <= Count => checked.ret = TRUE
        /\ Len(recent[checked.id]) > Count => checked.ret = FALSE
        /\ \A j \in 1..Len(recent[checked.id]) : j > Count => recent[checked.id][j].ret = FALSE

\* a check returns true after the table held more than N timestamps of its
\* identity, all of them older than the window by now
C1_Witness ==
    /\ JustChecked
    /\ checked.ret = TRUE
    /\ checked.pruned > Count

\* C2: after every check of an identity the enabled limiter can count, whether
\* it returned true or false, the list stored for that identity holds only
\* timestamps less than W seconds older than the check, the last of them the
\* time of the check itself.
C2_Theorem ==
    (checked.called /\ Limited(checked.id)) =>
        /\ checked.appended
        /\ checked.id \in DOMAIN image_rate_limit
        /\ image_rate_limit[checked.id] # <<>>
        /\ image_rate_limit[checked.id][Len(image_rate_limit[checked.id])] = checked.time
        /\ \A k \in 1..Len(image_rate_limit[checked.id]) :
              checked.time - image_rate_limit[checked.id][k] < Window

\* a check that returned false and removed a timestamp older than the window
C2_Witness ==
    /\ checked.called
    /\ Limited(checked.id)
    /\ checked.ret = FALSE
    /\ checked.pruned > 0

\* C9: a check that fails internally (an identity that cannot be a table key)
\* returns true, raises nothing, and leaves the whole table as it was.
C9_Theorem ==
    [][checked'.logged =>
          /\ checked'.ret = TRUE
          /\ ~checked'.raised
          /\ image_rate_limit' = image_rate_limit]_vars

\* a direct check of the unhashable identity failed while the table held timestamps
C9_Witness ==
    /\ done.op = "image_rate_limit_check"
    /\ done.a.id = ListId
    /\ checked.logged
    /\ checked.id = ListId
    /\ DOMAIN image_rate_limit # {}

\* the calls of identity id before its latest one, in the last W seconds, that
\* were imagine calls without a prompt
NoPromptCallsBefore(id) ==
    {k \in 1..(Len(recent[id]) - 1) : recent[id][k].noprompt}

\* C10: imagine checks the rate limit before it looks at the prompt, so a call
\* rejected for its missing or empty prompt counts: an imagine call with a
\* prompt, made by an identity that made N or more imagine calls without a
\* prompt in the W seconds before it, is throttled and sends no request.
C10_Theorem ==
    (/\ done.op = "imagine"
     /\ ~NoPrompt(done.a.prompt)
     /\ Limited(done.a.id)
     /\ done.chk.time = now
     /\ Cardinality(NoPromptCallsBefore(done.a.id)) >= Count) =>
        /\ done.result = <<None, RateLimitedMessage(settings)>>
        /\ ~done.request.sent

\* exactly N imagine calls without a prompt, then one with a prompt: throttled
C10_Witness ==
    /\ done.op = "imagine"
    /\ done.a.prompt = A_CAT
    /\ Limited(done.a.id)
    /\ done.chk.time = now
    /\ Len(recent[done.a.id]) = Count + 1
    /\ Cardinality(NoPromptCallsBefore(done.a.id)) = Count
    /\ done.result = <<None, RateLimitedMessage(settings)>>
    /\ ~done.request.sent

(***************************************************************************)
(* The claims about parsing, requests and results, under SpecParse: each   *)
(* is stated about the call that has returned (done).                      *)
(***************************************************************************)
DalleFlags == {NATURAL, VIVID, SD, HD, HORIZONTAL, VERTICAL}
StabilityFlags == {HORIZONTAL, VERTICAL, RATIO, NEGATIVE, SEED}
BLUR == <<"b", "l", "u", "r">>

\* the positions of sub in s
occurrences(s, sub) ==
    {i \in 1..(Len(s) - Len(sub) + 1) : SubSeq(s, i, i + Len(sub) - 1) = sub}

\* s ends with sub
endswith(s, sub) ==
    Len(s) >= Len(sub) /\ SubSeq(s, Len(s) - Len(sub) + 1, Len(s)) = sub

\* prompt holds flag once, followed by word, and word ends there
HasDirective(prompt, flag, word) ==
    /\ Cardinality(occurrences(prompt, flag)) = 1
    /\ \E i \in occurrences(prompt, flag \o SPACE \o word) :
          \/ i + Len(flag \o SPACE \o word) > Len(prompt)
          \/ prompt[i + Len(flag \o SPACE \o word)] = " "

\* C3: in imagine of both engines the request carries, for each generation
\* parameter, the explicit argument when one is given (a directive never
\* overrides it), otherwise the value of the directive in the prompt, otherwise
\* the default of the settings.
C3_Precedence ==
    (done.op = "imagine" /\ done.request.sent) =>
        IF engine = "dalle"
        THEN /\ done.a.size # <<>> => done.request.size = done.a.size[1]
             /\ done.a.style # <<>> => done.request.style = done.a.style[1]
             /\ done.a.quality # <<>> => done.request.quality = done.a.quality[1]
             /\ (/\ done.a.size = <<>>
                 /\ settings.ImageGenModel = "dall-e-3"
                 /\ contains(done.a.prompt, HORIZONTAL)
                 /\ ~contains(done.a.prompt, VERTICAL)) => done.request.size = "1792x1024"
             /\ (/\ done.a.style = <<>>
                 /\ ~contains(done.a.prompt, NATURAL)
                 /\ ~contains(done.a.prompt, VIVID)) =>
                    done.request.style = settings.ImageGenerationStyle
        ELSE /\ done.a.ratio # <<>> => done.request.aspect_ratio = done.a.ratio[1]
             /\ done.a.seed # <<>> => done.request.seed = done.a.seed[1]
             /\ done.a.negative_prompt # <<>> =>
                    done.request.negative_prompt = done.a.negative_prompt[1]
             /\ (/\ done.a.ratio = <<>>
                 /\ contains(done.a.prompt, HORIZONTAL)
                 /\ ~contains(done.a.prompt, VERTICAL)
                 /\ ~contains(done.a.prompt, RATIO)) => done.request.aspect_ratio = RATIO_16_9
             /\ (/\ done.a.ratio = <<>>
                 /\ \A f \in {HORIZONTAL, VERTICAL, RATIO} : ~contains(done.a.prompt, f)) =>
                    done.request.aspect_ratio = settings.ImageGenerationSize

\* the prompts made of directive tokens and whitespace only, at least one token
DalleDirectivePrompts ==
    Concatenations({SPACE} \cup DalleFlags \cup {SPACE \o f : f \in DalleFlags}, MaxPieces)
        \ Concatenations({SPACE}, MaxPieces)

StabilityDirectivePrompts ==
    Concatenations({SPACE, HORIZONTAL, VERTICAL, SPACE \o HORIZONTAL, SPACE \o VERTICAL,
                    SPACE \o SEED_42, SPACE \o RATIO_WIDE, SPACE \o NEGATIVE_BLUR},
                   MaxPieces)
        \ Concatenations({SPACE}, MaxPieces)

\* C4: for both engines an imagine call whose prompt is only directive tokens and
\* whitespace returns (None, <empty-prompt message>) and sends no request.
C4_EmptyAfterDirectives ==
    (/\ done.op = "imagine"
     /\ done.a.prompt \in IF engine = "dalle" THEN DalleDirectivePrompts
                          ELSE StabilityDirectivePrompts) =>
        /\ ~done.request.sent
        /\ done.result[1] = None
        /\ done.result[2] \in {NoPromptMessage, EmptyPromptMessage}

\* C5: every call of imagine or generate_image returns a pair; the pair (None,
\* None) is returned only when an exception was caught and logged, and a missing
\* or empty prompt is answered with a message.
C5_ResultCarriesMessage ==
    done.op \in {"imagine", "generate_image"} =>
        /\ Len(done.result) = 2
        /\ done.result = <<None, None>> => done.caught
        /\ NoPrompt(done.a.prompt) => (done.result[1] = None /\ done.result[2] # None)

\* the provider outcomes the messages must tell apart
DalleClass(o) ==
    IF o.exc = "BadRequestError"
    THEN IF o.text = "content_policy_violation" THEN "policy" ELSE "bad_request"
    ELSE IF o.exc = "RateLimitError" THEN "rate_limited"
    ELSE IF o.exc = "InternalServerError" THEN "server_error"
    ELSE "other"

StabilityClass(o) ==
    IF o.exc THEN "other"
    ELSE IF o.status_code = 400 THEN "bad_request"
    ELSE IF o.status_code = 403 THEN "policy"
    ELSE IF o.status_code = 429 THEN "rate_limited"
    ELSE IF o.status_code = 500 THEN "server_error"
    ELSE IF o.status_code = 200 /\ o.json /\ o.image = None /\ o.finish_reason = ""
    THEN "malformed"
    ELSE "other"

FailureClasses == {"bad_request", "policy", "rate_limited", "server_error"}

\* what the call that returned would have returned for the answer o
ResultFor(o) ==
    IF engine = "dalle"
    THEN Dalle_imagine_resume(arg(done.a.revision, FALSE), o).result
    ELSE StabilityClassify(done.request.prompt, arg(done.a.revision, FALSE), o).result

\* C6: bad request, content-policy rejection, server error and provider-side
\* rate limiting are answered with (None, message), the four messages pairwise
\* distinct and each distinct from the generic message of a malformed response.
C6_DistinctMessages ==
    (/\ done.op = "imagine"
     /\ done.request.sent
     /\ (IF engine = "dalle" THEN DalleClass(done.answer) ELSE StabilityClass(done.answer))
            \in FailureClasses) =>
        /\ done.result[1] = None
        /\ done.result[2] # None
        /\ IF engine = "dalle"
           THEN \A o \in DalleOutcomes :
                   (DalleClass(o) \in FailureClasses \ {DalleClass(done.answer)}) =>
                       ResultFor(o) # done.result
           ELSE \A o \in StabilityOutcomes :
                   (StabilityClass(o) \in (FailureClasses \cup {"malformed"})
                                             \ {StabilityClass(done.answer)}) =>
                       ResultFor(o) # done.result

\* C7: in StabilityEngine.imagine an argument directive followed by a word puts
\* that word into the request (aspect_ratio, negative_prompt, seed) and is removed,
\* flag and word, from the submitted prompt, whatever the defaults and the
\* arguments; "a dog --seed 42 --ratio 16:9" is submitted as "a dog".
C7_ArgumentDirectives ==
    (engine = "stability" /\ done.op = "imagine" /\ done.a.prompt # None) =>
        /\ HasDirective(done.a.prompt, SEED, <<"4", "2">>) =>
              /\ done.request.sent
              /\ done.request.seed = 42
              /\ ~contains(done.request.prompt, SEED)
        /\ HasDirective(done.a.prompt, RATIO, RATIO_16_9) =>
              /\ done.request.sent
              /\ done.request.aspect_ratio = RATIO_16_9
              /\ ~contains(done.request.prompt, RATIO)
        /\ HasDirective(done.a.prompt, NEGATIVE, BLUR) =>
              /\ done.request.sent
              /\ endswith(done.request.negative_prompt, BLUR)
              /\ ~contains(done.request.prompt, NEGATIVE)
        /\ done.a.prompt = A_DOG \o SPACE \o SEED_42 \o SPACE \o RATIO_WIDE =>
              /\ done.request.sent
              /\ done.request.prompt = A_DOG

\* the prompt that imagine submits for text, by the engine of the run
ParsedPrompt(text) ==
    IF engine = "dalle"
    THEN DalleDirectives(settings.ImageGenModel, text, "1024x1024", "vivid",
                         "standard").prompt
    ELSE StabilityDirectives(settings, text, RATIO_1_1, None, 0).prompt

\* C8: for both engines a prompt without directive tokens is submitted with only
\* its leading and trailing whitespace removed, and parsing the submitted text
\* again yields the same text.
C8_TrimmedOnly ==
    (/\ done.op = "imagine"
     /\ done.request.sent
     /\ \A f \in DalleFlags \cup StabilityFlags : ~contains(done.a.prompt, f)) =>
        /\ done.request.prompt = strip(done.a.prompt)
        /\ ParsedPrompt(done.request.prompt) = done.request.prompt

(***************************************************************************)
(* The claim about the identity of generate_image, under SpecFunction.     *)
(***************************************************************************)
\* the step ends with the call op(a) returned or newly suspended (every step
\* that makes the call does)
Called(op, a) ==
    /\ now' = now
    /\ \/ done'.op = op /\ done'.a = a
       \/ \E k \in 1..MaxInflight :
             ~pending[k].busy /\ pending'[k].busy /\ pending'[k].op = op /\ pending'[k].a = a

\* the step is the call generate_image(g) of the engine
GenerateImageStep(g) ==
    /\ Called("generate_image", g)
    /\ \/ DalleGenerateImage(g)
       \/ \E o \in LimitStabilityOutcomes : StabilityGenerateImage(g, o)

\* the imagine calls of an end user
UserDalleArgs == {DalleArgs(A_CAT, DefaultId, <<>>, <<>>, <<>>, <<>>)}

UserStabilityArgs == {StabilityArgs(A_CAT, DefaultId, <<>>, <<>>, <<>>, <<>>)}

\* the step is an imagine call of an end user
UserImagineStep ==
    \/ \E a \in UserDalleArgs : Called("imagine", a) /\ DalleImagine(a)
    \/ \E a \in UserStabilityArgs, o \in LimitStabilityOutcomes :
          Called("imagine", a) /\ StabilityImagine(a, o)

\* A caller of generate_image and an end user calling imagine, each call awaited
\* before the next is made.
NextFunction ==
    \/ Tick
    \/ \E a \in UserDalleArgs : Sequential /\ DalleImagine(a)
    \/ \E k \in 1..MaxInflight, o \in LimitDalleOutcomes : DalleResume(k, o)
    \/ \E g \in LimitGenerateArgs : Sequential /\ DalleGenerateImage(g)
    \/ \E a \in UserStabilityArgs, o \in LimitStabilityOutcomes : StabilityImagine(a, o)
    \/ \E g \in LimitGenerateArgs, o \in LimitStabilityOutcomes : StabilityGenerateImage(g, o)

SpecFunction == Init /\ [][NextFunction]_vars

\* the step leaves the history of identity id as it was
HistoryUnchanged(id) ==
    /\ id \in DOMAIN image_rate_limit' <=> id \in DOMAIN image_rate_limit
    /\ id \in DOMAIN image_rate_limit => image_rate_limit'[id] = image_rate_limit[id]

\* C11: a generate_image call with a prompt is rate-limited as identity
\* "function": with the limiter enabled it appends the current time to the
\* history of "function" (whose other timestamps all were there before) and,
\* enabled or not, leaves the history of every other identity unchanged; an
\* imagine call of an end user leaves the history of "function" unchanged; a
\* generate_image call with prompt None leaves the whole table unchanged.
C11_Theorem ==
    [][/\ \A g \in LimitGenerateArgs :
             GenerateImageStep(g) =>
                 /\ \A id \in Ids \ {FunctionId} : HistoryUnchanged(id)
                 /\ g.prompt = None => image_rate_limit' = image_rate_limit
                 /\ (g.prompt # None /\ Limited(FunctionId)) =>
                        /\ FunctionId \in DOMAIN image_rate_limit'
                        /\ image_rate_limit'[FunctionId] # <<>>
                        /\ image_rate_limit'[FunctionId][Len(image_rate_limit'[FunctionId])] = now
                        /\ \A k \in 1..(Len(image_rate_limit'[FunctionId]) - 1) :
                              /\ FunctionId \in DOMAIN image_rate_limit
                              /\ \E j \in 1..Len(image_rate_limit[FunctionId]) :
                                    image_rate_limit[FunctionId][j] =
                                        image_rate_limit'[FunctionId][k]
                 /\ (g.prompt # None /\ ~Limited(FunctionId)) =>
                        image_rate_limit' = image_rate_limit
       /\ UserImagineStep => HistoryUnchanged(FunctionId)]_vars

\* generate_image was throttled as "function" while the default end user,
\* whose history holds a timestamp, still has quota
C11_Witness ==
    /\ done.op = "generate_image"
    /\ done.a.prompt # None
    /\ done.chk.id = FunctionId
    /\ done.chk.appended
    /\ done.chk.ret = FALSE
    /\ done.chk.time = now
    /\ DefaultId \in DOMAIN image_rate_limit
    /\ image_rate_limit[DefaultId] # <<>>
    /\ Len(recent[DefaultId]) < Count

(***************************************************************************)
(* The concurrent specification: the callers do not wait for one another.  *)
(* An imagine call of DalleEngine runs from its start to "await            *)
(* self.client.images.generate(...)" (line 149) in one step, because       *)
(* image_rate_limit_check holds no await and awaiting it does not yield to *)
(* the event loop; it stays suspended until the provider answers, while    *)
(* other calls start.  StabilityEngine.imagine never suspends              *)
(* (requests.post blocks the loop).                                        *)
(***************************************************************************)
\* the concurrent callers share one identity
ConcurrentIds == {DefaultId}

ConcurrentDalleArgs == {DalleArgs(A_CAT, id, <<>>, <<>>, <<>>, <<>>) : id \in ConcurrentIds}

ConcurrentStabilityArgs ==
    {StabilityArgs(A_CAT, id, <<>>, <<>>, <<>>, <<>>) : id \in ConcurrentIds}

NextConcurrent ==
    \/ Tick
    \/ \E a \in ConcurrentDalleArgs : DalleImagine(a)
    \/ \E k \in 1..MaxInflight, o \in LimitDalleOutcomes : DalleResume(k, o)
    \/ \E a \in ConcurrentStabilityArgs, o \in LimitStabilityOutcomes : StabilityImagine(a, o)

SpecConcurrent == Init /\ [][NextConcurrent]_vars

\* the times of the calls of identity id in the last ImageRateLimitTime seconds
RecentTimes(id) == [k \in 1..Len(recent[id]) |-> recent[id][k].t]

\* the timestamps the table holds for id that are younger than the window
FreshTimes(id) ==
    IF id \in DOMAIN image_rate_limit
    THEN SelectSeq(image_rate_limit[id], LAMBDA t : now - t < Window)
    ELSE <<>>

\* the calls of identity id in the last ImageRateLimitTime seconds whose check
\* returned true
RecentGranted(id) == {k \in 1..Len(recent[id]) : recent[id][k].ret = TRUE}

\* the imagine calls of identity id suspended at the provider request
InFlight(id) == {k \in 1..MaxInflight : pending[k].busy /\ pending[k].a.id = id}

\* C12: with imagine calls of one identity in flight concurrently on one event
\* loop, every check appends, prunes and compares as one step: no timestamp is
\* lost (the table holds, for every identity, the time of every call of the last
\* W seconds, in order), and in any span shorter than W seconds at most N checks
\* of an identity return true.
C12_Theorem ==
    Limited(DefaultId) =>
        \A id \in HashableIds :
            /\ FreshTimes(id) = RecentTimes(id)
            /\ Cardinality(RecentGranted(id)) <= Count

\* N calls of one identity are in flight, and one more call of that identity,
\* made meanwhile, was throttled
C12_Witness ==
    /\ Limited(DefaultId)
    /\ Count >= 2
    /\ Cardinality(InFlight(DefaultId)) = Count
    /\ done.op = "imagine"
    /\ done.a.id = DefaultId
    /\ done.chk.time = now
    /\ done.chk.ret = FALSE
    /\ done.result = <<None, RateLimitedMessage(settings)>>
    /\ Len(recent[DefaultId]) = Count + 1

====
